---- MODULE Spec2Model ----
(***************************************************************************)
(* kmform: a form widget.  KMFormView fetches a form definition and mounts *)
(* FormView; FFormView is the variant that receives the definition as a    *)
(* prop.  Each question renders a control (choice buttons or a text field) *)
(* that pushes (questionId, value) into the store of the form view through *)
(* updateStore; the submit button sends the store to the backend.          *)
(*                                                                         *)
(* JavaScript strings are modelled as sequences of one-character strings:  *)
(* "" is << >> and "02" is <<"0", "2">>.                                   *)
(***************************************************************************)
EXTENDS Naturals, Sequences, FiniteSets

VARIABLES
    view,                     \* "none" | "FormView" | "FFormView": the mounted form view
    result,                   \* the TypeForm handed to the form view (NoForm before)
    loadingData,              \* KMFormView signal
    loadingError,             \* KMFormView signal
    closedForm,               \* KMFormView signal
    beginEndScreenTransition, \* signal behind props.beginViewTransition
    values,                   \* the store of the form view: sequence of QuestionResponse
    whenLoading,              \* loading signal of the submit button
    selectedState,            \* per question position: signal of the choice control
    prevSelectState,          \* per question position: last value the choice control pushed
    fieldValue,               \* per question position: ref.value of the text control
    error,                    \* per question position: error signal of the text control
    requests,                 \* submission requests in flight
    timers,                   \* pending setTimeout callbacks of FFormView.submitForm
    clickLog,                 \* history: per question position, the clicks since mount
    lastCall,                 \* history: the store call made by the last step, if any,
                              \*          with the store as it was before the call
    events,                   \* history: number of user events so far
    probe,                    \* a call of onClickListener on a free-standing button
    formFetch,                \* the fetches KMFormView has issued, each with its outcome
    flagTrace,                \* the flag values KMFormView rendered, one per setter call of onMount
    fieldLog,                 \* history: per question position, what the key releases left
    lastSettle                \* history: the submission completed by the last step, if any

vars == <<view, result, loadingData, loadingError, closedForm,
          beginEndScreenTransition, values, whenLoading, selectedState,
          prevSelectState, fieldValue, error, requests, timers, clickLog,
          lastCall, events, probe, formFetch, flagTrace, fieldLog, lastSettle>>

(***************************************************************************)
(* Bounds                                                                  *)
(***************************************************************************)
MaxQuestions == 2

MaxEvents == 4

MaxInFlight == 2

MaxProbeLen == 3

(***************************************************************************)
(* Strings                                                                 *)
(***************************************************************************)
EmptyStr == << >>

RECURSIVE StringsUpTo(_, _)
StringsUpTo(chars, n) ==
    IF n = 0 THEN {EmptyStr}
    ELSE LET shorter == StringsUpTo(chars, n - 1)
         IN  shorter \cup {Append(s, c) : s \in shorter, c \in chars}

\* The 0-based positions at which p occurs in s
Occurrences(s, p) ==
    {k \in 0..Len(s) : k + Len(p) <= Len(s) /\ SubSeq(s, k + 1, k + Len(p)) = p}

\* String.prototype.includes
includes(s, p) == Occurrences(s, p) # {}

\* String.prototype.replace with a string pattern: only the first occurrence
replace(s, p, r) ==
    IF ~includes(s, p) THEN s
    ELSE LET k == CHOOSE k \in Occurrences(s, p) :
                     \A j \in Occurrences(s, p) : k <= j
         IN  SubSeq(s, 1, k) \o r \o SubSeq(s, k + Len(p) + 1, Len(s))

(***************************************************************************)
(* Types (KMTypes)                                                         *)
(***************************************************************************)
QuestionType ==
    [multi  |-> "MultiChoice", single |-> "SingleChoice",
     short  |-> "ShortAnswer", long   |-> "LongAnswer"]

Option == {<<"0">>, <<"1">>, <<"2">>}

\* The questions a form definition is built from
Question ==
    { [id |-> "a", type |-> QuestionType.multi,  required |-> FALSE,
       options |-> << <<"0">>, <<"1">>, <<"2">> >>],
      [id |-> "b", type |-> QuestionType.single, required |-> TRUE,
       options |-> << <<"0">>, <<"1">> >>],
      [id |-> "c", type |-> QuestionType.short,  required |-> TRUE,
       options |-> << >>],
      [id |-> "d", type |-> QuestionType.long,   required |-> FALSE,
       options |-> << >>] }

RECURSIVE QuestionLists(_)
QuestionLists(n) ==
    IF n = 0 THEN {<< >>}
    ELSE LET fewer == QuestionLists(n - 1)
         IN  fewer \cup
             {Append(qs, q) : qs \in {l \in fewer : Len(l) = n - 1},
                              q \in Question}

\* Question ids are unique within a form
UniqueIds(qs) ==
    \A i, j \in 1..Len(qs) : qs[i].id = qs[j].id => i = j

TypeForm ==
    { [id |-> "f1", stillAccepting |-> sa, questions |-> qs] :
        sa \in BOOLEAN,
        qs \in {l \in QuestionLists(MaxQuestions) : UniqueIds(l)} }

NoForm == [id |-> "", stillAccepting |-> FALSE, questions |-> << >>]

TextValues == {EmptyStr, <<"x">>}

(***************************************************************************)
(* FButton                                                                 *)
(***************************************************************************)
\* Variants of onClickListener with one slip each
onClickListener_replaceAll(state, id, multipleChoiceMode) ==
    IF multipleChoiceMode
    THEN IF includes(state, id)
         THEN SelectSeq(state, LAMBDA c : <<c>> # id)
         ELSE state \o id
    ELSE IF state = id THEN EmptyStr ELSE id

onClickListener_noDeselect(state, id, multipleChoiceMode) ==
    IF multipleChoiceMode
    THEN IF includes(state, id) THEN replace(state, id, EmptyStr)
         ELSE state \o id
    ELSE id

onClickListener_alwaysAppend(state, id, multipleChoiceMode) ==
    IF multipleChoiceMode
    THEN state \o id
    ELSE IF state = id THEN EmptyStr ELSE id

onClickListener_accumulate(state, id, multipleChoiceMode) ==
    IF includes(state, id) THEN replace(state, id, EmptyStr)
    ELSE state \o id

onClickListener_noRemove(state, id, multipleChoiceMode) ==
    IF multipleChoiceMode
    THEN IF includes(state, id) THEN state
         ELSE state \o id
    ELSE IF state = id THEN EmptyStr ELSE id

onClickListener_prepend(state, id, multipleChoiceMode) ==
    IF multipleChoiceMode
    THEN IF includes(state, id) THEN replace(state, id, EmptyStr)
         ELSE id \o state
    ELSE IF state = id THEN EmptyStr ELSE id

\* FButton.onClickListener: the value handed to props.setSelectedState
onClickListener(state, id, multipleChoiceMode) ==
    IF multipleChoiceMode
    THEN IF includes(state, id) THEN replace(state, id, EmptyStr)
         ELSE state \o id
    ELSE IF state = id THEN EmptyStr ELSE id

(***************************************************************************)
(* FormView / FFormView                                                    *)
(***************************************************************************)
\* Variants of initialiseStore and updateStore with one slip each
initialiseStore_reversed(questions) ==
    [i \in 1..Len(questions) |->
        [questionId |-> questions[Len(questions) + 1 - i].id,
         value |-> EmptyStr]]

updateStore_all(vals, id, value) ==
    [i \in 1..Len(vals) |-> [vals[i] EXCEPT !.value = value]]

updateStore_upsert(vals, id, value) ==
    IF \E i \in 1..Len(vals) : vals[i].questionId = id
    THEN [i \in 1..Len(vals) |->
            IF vals[i].questionId = id THEN [vals[i] EXCEPT !.value = value]
            ELSE vals[i]]
    ELSE Append(vals, [questionId |-> id, value |-> value])

updateStore_moveToEnd(vals, id, value) ==
    SelectSeq(vals, LAMBDA v : v.questionId # id) \o
    [i \in 1..Len(SelectSeq(vals, LAMBDA v : v.questionId = id)) |->
        [questionId |-> id, value |-> value]]

initialiseStore(questions) ==
    [i \in 1..Len(questions) |->
        [questionId |-> questions[i].id, value |-> EmptyStr]]

\* updateStore: setValues(values.map(...)); the store keeps the mapped array
updateStore(vals, id, value) ==
    [i \in 1..Len(vals) |->
        IF vals[i].questionId = id THEN [vals[i] EXCEPT !.value = value]
        ELSE vals[i]]

\* JSON.stringify: an immutable text made from the value at the time of the call
JSONstringify(v) == <<"json", v>>

\* The request FormView.submitForm hands to fetch: method and body are put
\* inside `headers`, so the request itself has the default method and no body
NoBody == << >>

\* A variant of FormViewRequest that serialises a fresh store
FormViewRequest_fresh(form, vals) ==
    [url     |-> "submitUrl",
     method  |-> "GET",
     headers |-> {<<"method", "PUT">>,
                  <<"body", JSONstringify(
                       [formId |-> form.id,
                        questionResponses |->
                            [i \in 1..Len(vals) |->
                                [vals[i] EXCEPT !.value = EmptyStr]]])>>},
     body    |-> NoBody]

FormViewRequest(form, vals) ==
    [url     |-> "submitUrl",
     method  |-> "GET",
     headers |-> {<<"method", "PUT">>,
                  <<"body", JSONstringify([formId |-> form.id,
                                           questionResponses |-> vals])>>},
     body    |-> NoBody]

\* The JSON text a submission request carries
SentText(req) ==
    IF req.body # NoBody THEN req.body
    ELSE (CHOOSE h \in req.headers : h[1] = "body")[2]

\* The request formRespond hands to fetch
formRespondRequest(data) ==
    [url     |-> <<"form/respond?formId=", data.formId>>,
     method  |-> "PUT",
     headers |-> {<<"aKey", "VITE_PUBLIC_SEC">>,
                  <<"Content-Type", "application/json">>},
     body    |-> JSONstringify(data)]

Statuses == {200, 204, 500}

\* formRespond's return value for a response status
formRespondResult(status) == status = 204

\* A variant of shortPromptError that forgets `required`
shortPromptError_anyField(value, required) == value = EmptyStr

\* KMShortPromptView.onValueChange: the value handed to setError
shortPromptError(value, required) == value = EmptyStr /\ required

\* FLongPromptView.onValueChange: the value handed to setError
longPromptError(value) == value = EmptyStr

\* What the fetch of the form definition can come to
PendingFetch == [state |-> "pending", status |-> 0, parsable |-> FALSE]

FetchOutcomes ==
    {[state |-> "rejected", status |-> 0, parsable |-> FALSE]} \cup
    {[state |-> "answered", status |-> st, parsable |-> p] :
        st \in Statuses, p \in BOOLEAN}

\* A variant of fetchFormStructureThrows that accepts every 2xx status
fetchFormStructureThrows_ok(o) ==
    o.state = "rejected" \/ o.status >= 300 \/ ~o.parsable

\* KMFormView.fetchFormStructure: whether the awaited call throws
fetchFormStructureThrows(o) ==
    o.state = "rejected" \/ o.status # 200 \/ ~o.parsable

IsChoice(q) == q.type \in {QuestionType.single, QuestionType.multi}

IsText(q) == q.type \in {QuestionType.short, QuestionType.long}

multiChoiceMode(q) == q.type = QuestionType.multi

\* Variants of the guard of the choice control's effect
effectPushes_always(selected, prev) == TRUE

effectPushes_nonEmpty(selected, prev) == selected # prev /\ selected # EmptyStr

\* KMChoicePromptView, createEffect: whether storeUpdater is called
effectPushes(selected, prev) == selected # prev

\* The first run of the effects of the choice controls, when the form view
\* is constructed: selectedState() and prevSelectState are both ""
RECURSIVE runMountEffects(_, _, _)
runMountEffects(vals, qs, k) ==
    IF k > Len(qs) THEN vals
    ELSE runMountEffects(
             IF IsChoice(qs[k]) /\ effectPushes(EmptyStr, EmptyStr)
             THEN updateStore(vals, qs[k].id, EmptyStr)
             ELSE vals,
             qs, k + 1)

mountPushes(qs) ==
    Cardinality({k \in 1..Len(qs) :
                    IsChoice(qs[k]) /\ effectPushes(EmptyStr, EmptyStr)})

\* KMShortPromptView / FLongPromptView: whether the error message is visible
errorShown(q, err) ==
    IF q.type = QuestionType.short THEN err ELSE err /\ q.required

OptionIds(q) == {q.options[k] : k \in 1..Len(q.options)}

NoCall ==
    [op |-> "none", id |-> "", value |-> EmptyStr, before |-> << >>,
     pushes |-> 0, event |-> "none", pos |-> 0]

NoSettle == [via |-> "none", status |-> 0, returned |-> FALSE, threw |-> FALSE]

NoKeys == [keyed |-> FALSE, hadText |-> FALSE]

NoProbe ==
    [selectedState |-> EmptyStr, multipleChoiceMode |-> FALSE,
     before |-> EmptyStr, id |-> EmptyStr, clicked |-> FALSE]

Mounted == view # "none"

Positions == 1..Len(result.questions)

\* KMFormView: the four Show blocks
\* The signals of KMFormView as they are created
InitialFlags ==
    [loadingData |-> TRUE, loadingError |-> FALSE, closedForm |-> FALSE]

\* A variant of onMountFlags that clears the loading flag first
onMountFlags_clearFirst(threw, stillAccepting) ==
    IF threw
    THEN << [InitialFlags EXCEPT !.loadingError = TRUE] >>
    ELSE << [InitialFlags EXCEPT !.loadingData = FALSE],
            [InitialFlags EXCEPT !.loadingData = FALSE,
                                 !.closedForm = ~stillAccepting] >>

\* KMFormView.onMount after the await: the values of the three signals after
\* each setter call, in the order of the calls.  Every setter call re-renders
\* the <Show> blocks, so each element is a rendered state.
onMountFlags(threw, stillAccepting) ==
    IF threw
    THEN << [InitialFlags EXCEPT !.loadingError = TRUE] >>
    ELSE << [InitialFlags EXCEPT !.closedForm = ~stillAccepting],
            [InitialFlags EXCEPT !.closedForm = ~stillAccepting,
                                 !.loadingData = FALSE] >>

\* The screens whose <Show when=...> condition holds under flags f
Shown(f) ==
    (IF f.loadingData /\ ~f.loadingError THEN {"loading"} ELSE {}) \cup
    (IF f.loadingError THEN {"error"} ELSE {}) \cup
    (IF ~f.loadingData /\ ~f.loadingError /\ f.closedForm
     THEN {"closed"} ELSE {}) \cup
    (IF ~f.loadingData /\ ~f.loadingError /\ ~f.closedForm
     THEN {"form"} ELSE {})

LoadingScreenShown == loadingData /\ ~loadingError

ErrorScreenShown == loadingError

ClosedFormShown == ~loadingData /\ ~loadingError /\ closedForm

FormViewShown == ~loadingData /\ ~loadingError /\ ~closedForm

(***************************************************************************)
(* Initial state: KMFormView has issued the fetch of the form definition;  *)
(* no form view is mounted.                                                *)
(***************************************************************************)
Init ==
    /\ view = "none"
    /\ result = NoForm
    /\ loadingData = TRUE
    /\ loadingError = FALSE
    /\ closedForm = FALSE
    /\ beginEndScreenTransition = FALSE
    /\ values = << >>
    /\ whenLoading = FALSE
    /\ selectedState = << >>
    /\ prevSelectState = << >>
    /\ fieldValue = << >>
    /\ error = << >>
    /\ requests = << >>
    /\ timers = 0
    /\ clickLog = << >>
    /\ lastCall = NoCall
    /\ events = 0
    /\ probe = NoProbe
    /\ formFetch = <<PendingFetch>>
    /\ fieldLog = << >>
    /\ lastSettle = NoSettle
    /\ flagTrace = <<InitialFlags>>

\* The form view is constructed for `form`: createStore(initialiseStore(..)),
\* and every control is constructed with its initial signals.  The effect of
\* a choice control runs once on mount and pushes nothing ("" = prevSelectState).
MountFormView(form, which) ==
    /\ view' = which
    /\ result' = form
    /\ values' = runMountEffects(initialiseStore(form.questions),
                                  form.questions, 1)
    /\ whenLoading' = FALSE
    /\ selectedState' = [i \in 1..Len(form.questions) |-> EmptyStr]
    /\ prevSelectState' = [i \in 1..Len(form.questions) |-> EmptyStr]
    /\ fieldValue' = [i \in 1..Len(form.questions) |-> EmptyStr]
    /\ error' = [i \in 1..Len(form.questions) |-> FALSE]
    /\ clickLog' = [i \in 1..Len(form.questions) |-> << >>]
    /\ fieldLog' = [i \in 1..Len(form.questions) |-> NoKeys]
    /\ lastCall' = [op |-> "initialiseStore", id |-> "", value |-> EmptyStr,
                    before |-> << >>, pushes |-> mountPushes(form.questions),
                    event |-> "mount", pos |-> 0]

\* KMFormView.onMount, fetchFormStructure returned `form` (the fetch came to
\* outcome o, which did not make it throw)
LoadOk(o, form) ==
    /\ view = "none" /\ loadingData /\ ~loadingError
    /\ formFetch = <<PendingFetch>>
    /\ ~fetchFormStructureThrows(o)
    /\ formFetch' = <<o>>
    /\ flagTrace' = onMountFlags(FALSE, form.stillAccepting)
    /\ closedForm' = flagTrace'[Len(flagTrace')].closedForm
    /\ loadingData' = flagTrace'[Len(flagTrace')].loadingData
    /\ IF form.stillAccepting
       THEN MountFormView(form, "FormView")
       ELSE /\ result' = form
            /\ lastCall' = NoCall
            /\ UNCHANGED <<view, values, whenLoading, selectedState,
                           prevSelectState, fieldValue, error, clickLog,
                           fieldLog>>
    /\ UNCHANGED <<loadingError, beginEndScreenTransition, requests, timers,
                   events, probe, lastSettle>>

\* KMFormView.onMount, fetchFormStructure threw (the fetch came to outcome o:
\* a status other than 200, a rejection, an unparsable body)
LoadFail(o) ==
    /\ view = "none" /\ loadingData /\ ~loadingError
    /\ formFetch = <<PendingFetch>>
    /\ fetchFormStructureThrows(o)
    /\ formFetch' = <<o>>
    /\ flagTrace' = onMountFlags(TRUE, FALSE)
    /\ loadingError' = flagTrace'[Len(flagTrace')].loadingError
    /\ lastCall' = NoCall
    /\ UNCHANGED <<view, result, loadingData, closedForm,
                   beginEndScreenTransition, values, whenLoading,
                   selectedState, prevSelectState, fieldValue, error,
                   requests, timers, clickLog, events, probe, fieldLog,
                   lastSettle>>

\* FFormView is rendered with props.data = form
MountFFormView(form) ==
    /\ view = "none" /\ loadingData /\ ~loadingError
    /\ formFetch = <<PendingFetch>>
    /\ MountFormView(form, "FFormView")
    /\ UNCHANGED <<loadingData, loadingError, closedForm,
                   beginEndScreenTransition, requests, timers, events, probe,
                   formFetch, flagTrace, lastSettle>>

\* A click on the button of option `id` of the choice control at position i:
\* onClickListener sets the signal, then the control's effect runs and pushes
\* the new value when it differs from prevSelectState.
Click(i, id) ==
    /\ Mounted /\ events < MaxEvents
    /\ i \in Positions /\ IsChoice(result.questions[i])
    /\ id \in OptionIds(result.questions[i])
    /\ LET q   == result.questions[i]
           new == onClickListener(selectedState[i], id, multiChoiceMode(q))
       IN  /\ selectedState' = [selectedState EXCEPT ![i] = new]
           /\ clickLog' = [clickLog EXCEPT ![i] =
                  Append(@, [id |-> id, before |-> selectedState[i]])]
           /\ IF effectPushes(new, prevSelectState[i])
              THEN /\ values' = updateStore(values, q.id, new)
                   /\ prevSelectState' = [prevSelectState EXCEPT ![i] = new]
                   /\ lastCall' = [op |-> "updateStore", id |-> q.id,
                                   value |-> new, before |-> values,
                                   pushes |-> 1, event |-> "click", pos |-> i]
              ELSE /\ lastCall' = [NoCall EXCEPT !.before = values,
                                                 !.event = "click", !.pos = i]
                   /\ UNCHANGED <<values, prevSelectState>>
    /\ events' = events + 1
    /\ UNCHANGED <<view, result, loadingData, loadingError, closedForm,
                   beginEndScreenTransition, whenLoading, fieldValue, error,
                   requests, timers, probe, formFetch, flagTrace, fieldLog>>
    /\ lastSettle' = NoSettle

\* A key release in the text control at position i that leaves `text` in the
\* field: onValueChange of KMShortPromptView / FLongPromptView
KeyUp(i, text) ==
    /\ Mounted /\ events < MaxEvents
    /\ i \in Positions /\ IsText(result.questions[i])
    /\ LET q == result.questions[i]
       IN  /\ fieldValue' = [fieldValue EXCEPT ![i] = text]
           /\ error' = [error EXCEPT ![i] =
                  IF q.type = QuestionType.short
                  THEN shortPromptError(text, q.required)
                  ELSE longPromptError(text)]
           /\ values' = updateStore(values, q.id, text)
           /\ lastCall' = [op |-> "updateStore", id |-> q.id,
                           value |-> text, before |-> values,
                           pushes |-> 1, event |-> "keyup", pos |-> i]
           /\ fieldLog' = [fieldLog EXCEPT ![i] =
                  [keyed |-> TRUE, hadText |-> @.hadText \/ text # EmptyStr]]
    /\ events' = events + 1
    /\ UNCHANGED <<view, result, loadingData, loadingError, closedForm,
                   beginEndScreenTransition, whenLoading, selectedState,
                   prevSelectState, requests, timers, clickLog, probe,
                   formFetch, flagTrace>>
    /\ lastSettle' = NoSettle

\* A variant of Submit that ignores the click while a submission is loading
Submit_guarded ==
    /\ Mounted /\ events < MaxEvents
    /\ Len(requests) < MaxInFlight
    /\ ~whenLoading
    /\ whenLoading' = TRUE
    /\ requests' = Append(requests,
           IF view = "FormView"
           THEN FormViewRequest(result, values)
           ELSE formRespondRequest([formId |-> result.id,
                                    questionResponses |-> values]))
    /\ events' = events + 1
    /\ lastCall' = NoCall
    /\ lastSettle' = NoSettle
    /\ UNCHANGED <<view, result, loadingData, loadingError, closedForm,
                   beginEndScreenTransition, values, selectedState,
                   prevSelectState, fieldValue, error, timers, clickLog, probe,
                   formFetch, flagTrace, fieldLog>>

\* A click on the submit button: submitForm up to its await
Submit ==
    /\ Mounted /\ events < MaxEvents
    /\ Len(requests) < MaxInFlight
    /\ whenLoading' = TRUE
    /\ requests' = Append(requests,
           IF view = "FormView"
           THEN FormViewRequest(result, values)
           ELSE formRespondRequest([formId |-> result.id,
                                    questionResponses |-> values]))
    /\ events' = events + 1
    /\ lastCall' = NoCall
    /\ UNCHANGED <<view, result, loadingData, loadingError, closedForm,
                   beginEndScreenTransition, values, selectedState,
                   prevSelectState, fieldValue, error, timers, clickLog, probe,
                   formFetch, flagTrace, fieldLog>>
    /\ lastSettle' = NoSettle

RemoveAt(s, k) == SubSeq(s, 1, k - 1) \o SubSeq(s, k + 1, Len(s))

\* The fetch of the k-th outstanding submission resolves with `status`:
\* FormView.submitForm continues with beginViewTransition(true);
\* FFormView.submitForm gets formRespond's boolean and arms the timer.
\* (lastSettle keeps the status only where the code reads it, in formRespond.)
SubmitResolve(k, status) ==
    /\ k \in 1..Len(requests)
    /\ requests' = RemoveAt(requests, k)
    /\ IF view = "FormView"
       THEN /\ beginEndScreenTransition' = TRUE
            /\ UNCHANGED timers
       ELSE /\ timers' = timers + 1
            /\ UNCHANGED beginEndScreenTransition
    /\ lastCall' = NoCall
    /\ lastSettle' =
          IF view = "FormView"
          THEN [via |-> "fetch", status |-> 0, returned |-> FALSE,
                threw |-> FALSE]
          ELSE [via |-> "formRespond", status |-> status,
                returned |-> formRespondResult(status), threw |-> FALSE]
    /\ UNCHANGED <<view, result, loadingData, loadingError, closedForm,
                   values, whenLoading, selectedState, prevSelectState,
                   fieldValue, error, clickLog, events, probe, formFetch, flagTrace,
                   fieldLog>>

\* The fetch of the k-th outstanding submission rejects: FormView.submitForm
\* ends with the rejection; formRespond catches it and returns false, and
\* FFormView.submitForm arms the timer.
SubmitReject(k) ==
    /\ k \in 1..Len(requests)
    /\ requests' = RemoveAt(requests, k)
    /\ IF view = "FormView"
       THEN UNCHANGED timers
       ELSE timers' = timers + 1
    /\ lastCall' = NoCall
    /\ lastSettle' =
          IF view = "FormView"
          THEN [via |-> "fetch", status |-> 0, returned |-> FALSE,
                threw |-> TRUE]
          ELSE [via |-> "formRespond", status |-> 0, returned |-> FALSE,
                threw |-> FALSE]
    /\ UNCHANGED <<view, result, loadingData, loadingError, closedForm,
                   beginEndScreenTransition, values, whenLoading,
                   selectedState, prevSelectState, fieldValue, error,
                   clickLog, events, probe, formFetch, flagTrace, fieldLog>>

\* The setTimeout callback of FFormView.submitForm
TimerFire ==
    /\ timers > 0
    /\ timers' = timers - 1
    /\ beginEndScreenTransition' = TRUE
    /\ lastCall' = NoCall
    /\ lastSettle' = NoSettle
    /\ UNCHANGED <<view, result, loadingData, loadingError, closedForm,
                   values, whenLoading, selectedState, prevSelectState,
                   fieldValue, error, requests, clickLog, events,
                   probe, formFetch, flagTrace, fieldLog>>

Next ==
    \/ /\ formFetch = <<PendingFetch>> /\ view = "none"
       /\ \E o \in FetchOutcomes, form \in TypeForm : LoadOk(o, form)
    \/ \E o \in FetchOutcomes : LoadFail(o)
    \/ /\ formFetch = <<PendingFetch>> /\ view = "none"
       /\ \E form \in TypeForm : MountFFormView(form)
    \/ \E i \in 1..MaxQuestions + 1, id \in Option : Click(i, id)
    \/ \E i \in 1..MaxQuestions + 1, text \in TextValues : KeyUp(i, text)
    \/ Submit
    \/ \E k \in 1..MaxInFlight + 1, status \in Statuses : SubmitResolve(k, status)
    \/ \E k \in 1..MaxInFlight + 1 : SubmitReject(k)
    \/ TimerFire

Spec == Init /\ [][Next]_vars

(***************************************************************************)
(* The store driven through its update entry point by any caller:          *)
(* updateStore is handed out as the storeUpdater prop, and a caller may    *)
(* pass any id, also one no question has.  Calls interleave with submit    *)
(* clicks and with the completions of the submissions.                     *)
(***************************************************************************)
CallerIds == {q.id : q \in Question} \cup {"zz"}

CallerValues == {EmptyStr, <<"x">>, <<"0", "2">>}

CallUpdateStore(id, value) ==
    /\ Mounted /\ events < MaxEvents
    /\ values' = updateStore(values, id, value)
    /\ lastCall' = [op |-> "updateStore", id |-> id, value |-> value,
                    before |-> values, pushes |-> 1, event |-> "caller",
                    pos |-> 0]
    /\ events' = events + 1
    /\ UNCHANGED <<view, result, loadingData, loadingError, closedForm,
                   beginEndScreenTransition, whenLoading, selectedState,
                   prevSelectState, fieldValue, error, requests, timers,
                   clickLog, probe, formFetch, flagTrace, fieldLog>>
    /\ lastSettle' = NoSettle

NextStore ==
    \/ /\ formFetch = <<PendingFetch>> /\ view = "none"
       /\ \E o \in FetchOutcomes, form \in TypeForm : LoadOk(o, form)
    \/ \E o \in FetchOutcomes : LoadFail(o)
    \/ /\ formFetch = <<PendingFetch>> /\ view = "none"
       /\ \E form \in TypeForm : MountFFormView(form)
    \/ \E id \in CallerIds, value \in CallerValues : CallUpdateStore(id, value)
    \/ Submit
    \/ \E k \in 1..MaxInFlight + 1, status \in Statuses : SubmitResolve(k, status)
    \/ \E k \in 1..MaxInFlight + 1 : SubmitReject(k)
    \/ TimerFire

SpecStore == Init /\ [][NextStore]_vars

(***************************************************************************)
(* Forms of text questions only, short and long, required and not.         *)
(***************************************************************************)
TextQuestion ==
    {q \in Question : IsText(q)} \cup
    { [id |-> "e", type |-> QuestionType.short, required |-> FALSE,
       options |-> << >>],
      [id |-> "f", type |-> QuestionType.long,  required |-> TRUE,
       options |-> << >>] }

RECURSIVE ListsOver(_, _)
ListsOver(pool, n) ==
    IF n = 0 THEN {<< >>}
    ELSE LET less == ListsOver(pool, n - 1)
         IN  less \cup
             {Append(qs, q) : qs \in {l \in less : Len(l) = n - 1}, q \in pool}

TextForm ==
    { [id |-> "f2", stillAccepting |-> TRUE, questions |-> qs] :
        qs \in {l \in ListsOver(TextQuestion, MaxQuestions) : UniqueIds(l)} }

NextText ==
    \/ /\ formFetch = <<PendingFetch>> /\ view = "none"
       /\ \E o \in FetchOutcomes, form \in TextForm : LoadOk(o, form)
    \/ /\ formFetch = <<PendingFetch>> /\ view = "none"
       /\ \E form \in TextForm : MountFFormView(form)
    \/ \E i \in 1..MaxQuestions + 1, text \in TextValues : KeyUp(i, text)

SpecText == Init /\ [][NextText]_vars

(***************************************************************************)
(* A free-standing FButton set: the signal starts at any string of digits  *)
(* and the buttons are clicked in any order.                               *)
(***************************************************************************)
InitProbe ==
    /\ Init!1 /\ Init!2 /\ Init!3 /\ Init!4 /\ Init!5 /\ Init!6 /\ Init!7
    /\ Init!8 /\ Init!9 /\ Init!10 /\ Init!11 /\ Init!12 /\ Init!13
    /\ Init!14 /\ Init!15 /\ Init!16 /\ Init!17
    /\ Init!19 /\ Init!20 /\ Init!21 /\ Init!22
    /\ \E s \in StringsUpTo({"0", "1", "2"}, MaxProbeLen), m \in BOOLEAN :
          probe = [selectedState |-> s, multipleChoiceMode |-> m,
                   before |-> s, id |-> EmptyStr, clicked |-> FALSE]

ProbeClick(id) ==
    /\ probe' = [selectedState |-> onClickListener(probe.selectedState, id,
                                                   probe.multipleChoiceMode),
                 multipleChoiceMode |-> probe.multipleChoiceMode,
                 before |-> probe.selectedState,
                 id |-> id,
                 clicked |-> TRUE]
    /\ UNCHANGED <<view, result, loadingData, loadingError, closedForm,
                   beginEndScreenTransition, values, whenLoading,
                   selectedState, prevSelectState, fieldValue, error,
                   requests, timers, clickLog, lastCall, events, formFetch, flagTrace,
                   fieldLog, lastSettle>>

NextProbe == \E id \in Option : ProbeClick(id)

SpecProbe == InitProbe /\ [][NextProbe]_vars

(***************************************************************************)
(* Properties                                                              *)
(***************************************************************************)

\* C1: in multi-select mode a click on an option whose id occurs in the
\* selection state removes one occurrence of it and keeps the order of the
\* other characters; a click on an option whose id does not occur appends
\* the id at the end.
C1_MultiToggle ==
    (probe.clicked /\ probe.multipleChoiceMode) =>
        LET s == probe.before
            x == probe.id[1]
        IN  IF \E k \in 1..Len(s) : s[k] = x
            THEN \E k \in 1..Len(s) :
                    /\ s[k] = x
                    /\ Len(probe.selectedState) = Len(s) - 1
                    /\ \A j \in 1..Len(s) - 1 :
                          probe.selectedState[j] = IF j < k THEN s[j] ELSE s[j + 1]
            ELSE /\ Len(probe.selectedState) = Len(s) + 1
                 /\ \A j \in 1..Len(s) : probe.selectedState[j] = s[j]
                 /\ probe.selectedState[Len(s) + 1] = x

\* the last step of the scenario "" -> "0" -> "02" -> "2"
C1_Witness ==
    /\ probe.clicked /\ probe.multipleChoiceMode
    /\ probe.before = <<"0", "2">> /\ probe.id = <<"0">>
    /\ probe.selectedState = <<"2">>

\* C2: in single-select mode a click on an option yields "" when the
\* selection state equals the option's id and otherwise exactly that id.
C2_SingleToggle ==
    (probe.clicked /\ ~probe.multipleChoiceMode) =>
        IF Len(probe.before) = 1 /\ probe.before[1] = probe.id[1]
        THEN Len(probe.selectedState) = 0
        ELSE Len(probe.selectedState) = 1 /\ probe.selectedState[1] = probe.id[1]

\* a second click on the selected option deselects it
C2_Witness ==
    /\ probe.clicked /\ ~probe.multipleChoiceMode
    /\ probe.before = <<"0">> /\ probe.id = <<"0">>
    /\ probe.selectedState = EmptyStr

\* C3: the selection state of a choice control never holds a character twice.
C3_NoRepeat ==
    Mounted =>
        \A i \in Positions :
            \A j, k \in 1..Len(selectedState[i]) :
                selectedState[i][j] = selectedState[i][k] => j = k

\* an option deselected and selected again while another stays selected
C3_Witness ==
    /\ Mounted
    /\ \E i \in Positions :
          /\ Len(clickLog[i]) = 4
          /\ clickLog[i][1].id = clickLog[i][3].id
          /\ clickLog[i][3].id = clickLog[i][4].id
          /\ Len(selectedState[i]) = 2

\* C4: in single-select mode the selection state has length 0 or 1.
C4_SingleLength ==
    Mounted =>
        \A i \in Positions :
            result.questions[i].type = QuestionType.single =>
                Len(selectedState[i]) <= 1

\* a single-select control after clicks on two different options
C4_Witness ==
    /\ Mounted
    /\ \E i \in Positions :
          /\ result.questions[i].type = QuestionType.single
          /\ Len(clickLog[i]) >= 2
          /\ clickLog[i][1].id # clickLog[i][2].id
          /\ selectedState[i] = clickLog[i][2].id

\* C5 as stated: in multi-select mode two clicks in a row on the same option
\* leave the selection state exactly as it was before them.
C5_DoubleClickRestores ==
    Mounted =>
        \A i \in Positions :
            LET n == Len(clickLog[i])
            IN  ( /\ result.questions[i].type = QuestionType.multi
                  /\ n >= 2
                  /\ clickLog[i][n - 1].id = clickLog[i][n].id )
                => selectedState[i] = clickLog[i][n - 1].before

\* C5 (amended): in multi-select mode two clicks in a row on the same option
\* x leave the same set of options selected.  The state is exactly the one
\* before the clicks when x was not selected or was its last character;
\* when x was selected, the state is the former one with x moved to the end.
C5_DoubleClickAmended ==
    Mounted =>
        \A i \in Positions :
            LET n == Len(clickLog[i])
            IN  ( /\ result.questions[i].type = QuestionType.multi
                  /\ n >= 2
                  /\ clickLog[i][n - 1].id = clickLog[i][n].id )
                => LET s   == clickLog[i][n - 1].before
                       x   == clickLog[i][n].id[1]
                       now == selectedState[i]
                       was == \E k \in 1..Len(s) : s[k] = x
                   IN  /\ {now[k] : k \in 1..Len(now)} = {s[k] : k \in 1..Len(s)}
                       /\ Len(now) = Len(s)
                       /\ (~was \/ s[Len(s)] = x) => now = s
                       /\ was => /\ now[Len(now)] = x
                                /\ \E k \in 1..Len(s) :
                                      /\ s[k] = x
                                      /\ \A j \in 1..Len(s) - 1 :
                                            now[j] = IF j < k THEN s[j] ELSE s[j + 1]

\* two clicks on an option that was selected first of two: it moves to the end
C5_Witness ==
    /\ Mounted
    /\ \E i \in Positions :
          /\ result.questions[i].type = QuestionType.multi
          /\ Len(clickLog[i]) = 4
          /\ clickLog[i][3].id = clickLog[i][4].id
          /\ clickLog[i][3].before = <<"0", "2">>
          /\ selectedState[i] = <<"2", "0">>

\* C6: in multi-select mode, after one click on each of a sequence of
\* distinct options since mount, the selection state lists exactly those ids
\* in the order of the clicks.
C6_ClickOrder ==
    Mounted =>
        \A i \in Positions :
            LET n == Len(clickLog[i])
            IN  ( /\ result.questions[i].type = QuestionType.multi
                  /\ \A j, k \in 1..n : clickLog[i][j].id = clickLog[i][k].id => j = k )
                => /\ Len(selectedState[i]) = n
                   /\ \A j \in 1..n : selectedState[i][j] = clickLog[i][j].id[1]

\* options clicked in the order "2", "0": not the order of the options
C6_Witness ==
    /\ Mounted
    /\ \E i \in Positions :
          /\ result.questions[i].type = QuestionType.multi
          /\ Len(clickLog[i]) = 2
          /\ clickLog[i][1].id = <<"2">> /\ clickLog[i][2].id = <<"0">>
          /\ selectedState[i] = <<"2", "0">>

\* C7: initialiseStore yields one entry per question, in question order,
\* each with the question's id and the empty string.
C7_InitialiseStore ==
    lastCall.op = "initialiseStore" =>
        /\ Len(values) = Len(result.questions)
        /\ \A i \in 1..Len(result.questions) :
              /\ values[i].questionId = result.questions[i].id
              /\ values[i].value = EmptyStr

\* a form of two questions whose ids are not in alphabetical order
C7_Witness ==
    /\ lastCall.op = "initialiseStore"
    /\ Len(result.questions) = 2
    /\ result.questions[1].id = "c" /\ result.questions[2].id = "a"
    /\ Len(values) = 2

\* C8: updateStore with an id of an entry sets that entry's value and leaves
\* every other entry, and the position of every entry, as it was.
C8_UpdateExisting ==
    ( /\ lastCall.op = "updateStore"
      /\ \E i \in 1..Len(lastCall.before) :
            lastCall.before[i].questionId = lastCall.id )
    => /\ Len(values) = Len(lastCall.before)
       /\ \A i \in 1..Len(lastCall.before) :
             /\ values[i].questionId = lastCall.before[i].questionId
             /\ values[i].value =
                   IF lastCall.before[i].questionId = lastCall.id
                   THEN lastCall.value
                   ELSE lastCall.before[i].value

\* the second of two entries is updated while the first holds a value
C8_Witness ==
    /\ lastCall.op = "updateStore"
    /\ Len(lastCall.before) = 2
    /\ lastCall.before[2].questionId = lastCall.id
    /\ lastCall.before[1].value = <<"x">>
    /\ lastCall.value = <<"0", "2">>
    /\ values[2].value = <<"0", "2">>

\* C9: updateStore with an id no entry has completes and leaves the response
\* mapping as it was.
C9_UpdateUnknown ==
    ( /\ lastCall.op = "updateStore"
      /\ \A i \in 1..Len(lastCall.before) :
            lastCall.before[i].questionId # lastCall.id )
    => values = lastCall.before

\* a call with an id that is no question's, on a mapping that holds a value
C9_Witness ==
    /\ lastCall.op = "updateStore"
    /\ lastCall.id = "zz" /\ lastCall.value = <<"x">>
    /\ Len(lastCall.before) = 2
    /\ lastCall.before[1].value = <<"0", "2">>

\* C10: once the form view is mounted, the questionIds of the response
\* mapping are the ids of the form's questions, in the same order.
C10_MappingShape ==
    Mounted =>
        /\ Len(values) = Len(result.questions)
        /\ \A i \in 1..Len(values) : values[i].questionId = result.questions[i].id

\* updates with a matching and with an unknown id around a submission
C10_Witness ==
    /\ Mounted
    /\ Len(values) = 2
    /\ values[1].value = <<"x">>
    /\ Len(requests) = 1
    /\ lastCall.op = "updateStore" /\ lastCall.id = "zz"

\* C11: the text a submission request carries is made from the response
\* mapping as it is when submitForm runs, and a later change of the mapping
\* leaves the requests that are outstanding as they are.
C11_PayloadIsSnapshot ==
    [][ /\ Len(requests') = Len(requests) + 1 =>
              /\ SentText(requests'[Len(requests')])[2].questionResponses = values
              /\ SentText(requests'[Len(requests')])[2].formId = result.id
              /\ SubSeq(requests', 1, Len(requests)) = requests
        /\ values' # values => requests' = requests ]_vars

\* an update pushed while a submission is outstanding: the mapping has moved
\* on, the request still carries the mapping of the submit click
C11_Witness ==
    /\ Mounted
    /\ Len(requests) = 1
    /\ lastCall.op = "updateStore"
    /\ SentText(requests[1])[2].questionResponses = lastCall.before
    /\ values # lastCall.before

C13_LoadFailure ==
    view # "FFormView" =>
        LET failed == \E k \in 1..Len(formFetch) :
                         /\ formFetch[k].state # "pending"
                         /\ \/ formFetch[k].state = "rejected"
                            \/ formFetch[k].status # 200
                            \/ ~formFetch[k].parsable
        IN  /\ failed <=> loadingError
            /\ loadingError =>
                  /\ Len(formFetch) = 1
                  /\ ErrorScreenShown
                  /\ ~LoadingScreenShown /\ ~ClosedFormShown /\ ~FormViewShown
                  /\ view = "none"

\* the fetch is answered 204
C13_Witness ==
    /\ loadingError
    /\ formFetch[1].state = "answered"
    /\ formFetch[1].status = 204
    /\ formFetch[1].parsable

\* C14 as stated: every outstanding submission request has method PUT, an
\* aKey header and the JSON text of {formId, questionResponses} as its body.
C14_SubmitRequest ==
    \A k \in 1..Len(requests) :
        /\ requests[k].method = "PUT"
        /\ \E h \in requests[k].headers : h[1] = "aKey"
        /\ requests[k].body # NoBody
        /\ requests[k].body[1] = "json"
        /\ requests[k].body[2].formId = result.id

\* C15 as stated: formRespond never throws; it returns true for the statuses
\* 204 and 200 and false for every other status and for a failed call.
C15_FormRespondResult ==
    lastSettle.via = "formRespond" =>
        /\ ~lastSettle.threw
        /\ lastSettle.returned <=> lastSettle.status \in {200, 204}

\* C16: a choice control pushes nothing when it mounts; a click pushes at
\* most one update, whose value differs from the value the control pushed
\* last ("" at first), and it pushes nothing only when the selection state
\* equals that value.
C16_PushOnChange ==
    /\ lastCall.event = "mount" => lastCall.pushes = 0
    /\ lastCall.event = "click" =>
          /\ lastCall.pushes <= 1
          /\ lastCall.pushes = 1 =>
                lastCall.value # lastCall.before[lastCall.pos].value
          /\ lastCall.pushes = 0 =>
                selectedState[lastCall.pos] = lastCall.before[lastCall.pos].value

\* the third push of a control, back to the value of its first push
C16_Witness ==
    /\ lastCall.event = "click" /\ lastCall.pushes = 1
    /\ Len(clickLog[lastCall.pos]) = 3
    /\ lastCall.value = clickLog[lastCall.pos][2].before
    /\ lastCall.value # EmptyStr

\* C17: an option click or a key release pushes exactly one update, for the
\* question of the control; afterwards the entry of that question holds the
\* control's value and every other entry is as it was.
C17_OneUpdatePerEvent ==
    lastCall.event \in {"click", "keyup"} =>
        /\ lastCall.pushes = 1
        /\ lastCall.id = result.questions[lastCall.pos].id
        /\ values[lastCall.pos].questionId = lastCall.id
        /\ values[lastCall.pos].value =
              IF IsChoice(result.questions[lastCall.pos])
              THEN selectedState[lastCall.pos]
              ELSE fieldValue[lastCall.pos]
        /\ Len(values) = Len(lastCall.before)
        /\ \A j \in 1..Len(values) :
              j # lastCall.pos => values[j] = lastCall.before[j]

\* the last option of a control is deselected while another question has a value
C17_Witness ==
    /\ lastCall.event = "click"
    /\ selectedState[lastCall.pos] = EmptyStr
    /\ values[lastCall.pos].value = EmptyStr
    /\ \E j \in 1..Len(values) : j # lastCall.pos /\ values[j].value # EmptyStr

\* C18 as stated: the error message of a text control is visible only if the
\* question is required and non-empty text had been left in the field by an
\* earlier key release.
C18_ErrorOnlyAfterText ==
    Mounted =>
        \A i \in Positions :
            ( /\ IsText(result.questions[i])
              /\ errorShown(result.questions[i], error[i]) )
            => /\ result.questions[i].required
               /\ fieldLog[i].hadText

\* C19: a click on the submit button starts a submission whether or not an
\* earlier one is outstanding (within the bounds of the model).
C19_NoInFlightGuard ==
    (Mounted /\ events < MaxEvents /\ Len(requests) < MaxInFlight)
        => ENABLED Submit

\* two submissions of the same form session are outstanding
C19_Witness ==
    /\ Mounted
    /\ whenLoading
    /\ Len(requests) = 2
    /\ SentText(requests[1])[2].formId = SentText(requests[2])[2].formId

\* C20 as stated, in the form a finite run refutes: when the submit button
\* has been clicked and no submission request and no timer is outstanding
\* any more, the transition to the post-submission screen has been signalled.
C20_TransitionAfterCompletion ==
    (Mounted /\ whenLoading /\ requests = << >> /\ timers = 0)
        => beginEndScreenTransition

\* C21: in every state KMFormView renders, the states between the setter
\* calls of onMount included, exactly one of the loading, error, closed and
\* form screens is shown, and the form screen is shown only when the fetch
\* was answered 200 with a parsable body whose stillAccepting is true.
C21_OneScreen ==
    view # "FFormView" =>
        LET now == [loadingData |-> loadingData, loadingError |-> loadingError,
                    closedForm |-> closedForm]
        IN  /\ flagTrace[Len(flagTrace)] = now
            /\ \A k \in 1..Len(flagTrace) :
                  /\ Cardinality(Shown(flagTrace[k])) = 1
                  /\ "form" \in Shown(flagTrace[k]) =>
                        /\ formFetch[1].state = "answered"
                        /\ formFetch[1].status = 200
                        /\ formFetch[1].parsable
                        /\ result.stillAccepting
                        /\ view = "FormView"
            /\ LoadingScreenShown <=> Shown(now) = {"loading"}
            /\ ErrorScreenShown <=> Shown(now) = {"error"}
            /\ ClosedFormShown <=> Shown(now) = {"closed"}
            /\ FormViewShown <=> Shown(now) = {"form"}

\* a closed form was fetched: the closed flag was set while the loading
\* screen was still shown, then the closed screen replaced it
C21_Witness ==
    /\ formFetch[1].state = "answered" /\ formFetch[1].status = 200
    /\ result # NoForm /\ ~result.stillAccepting
    /\ Len(flagTrace) = 2
    /\ flagTrace[1].closedForm /\ Shown(flagTrace[1]) = {"loading"}
    /\ ClosedFormShown /\ view = "none"

====
